---- MODULE Spec2Model ----
(***************************************************************************)
(* Model of the frieza connection-pool load driver, cmd/frieza/main.go:    *)
(* main, Work.Start, Work.Stop, Work.PrintReport, Work.runWorker,          *)
(* counter.Write and aoverride.dial.                                       *)
(*                                                                         *)
(* Goroutines: the main goroutine (Start, then PrintReport), one goroutine *)
(* per worker, and the two goroutines of main that call Stop (duration     *)
(* timer, interrupt).  Strings are sequences of one-character strings.     *)
(* A panic or os.Exit in any goroutine, and the return of main, end the    *)
(* process: no goroutine takes a step afterwards.                          *)
(*                                                                         *)
(* A step of the model is one access to shared state (a channel, the       *)
(* WaitGroup, as.n) together with the goroutine-local code around it.      *)
(* Logging and the override's seen list (diagnostics only) are left out.   *)
(* main parses -d and -D and never copies them to Work.SendData; the       *)
(* field is explored both empty, as main leaves it, and set, as the usage  *)
(* text documents it.                                                      *)
(***************************************************************************)
EXTENDS Integers, Sequences, FiniteSets, TLC

\* ---------------------------------------------------------------- bounds
MaxC == 2          \* largest connection count -c explored
MaxBytes == 1      \* a worker reads data while its counter is below this
MaxChunk == 2      \* largest data message length

\* ------------------------------------------------------------ vocabulary
\* sel of a worker that has not read as.n
NoSel == << >>

Slots == 0 .. (MaxC - 1)

Triggers == {"timer", "interrupt"}

\* -resolve values explored: unset, the usage text's form host:port:addr,addr
\* and a form whose addresses are separated by colons.
ResolveNone == << >>

ResolveComma == <<"h", ":", "p", ":", "a", ",", "b">>

ResolveColon == <<"h", ":", "p", ":", "a", ":", "b">>

\* Work.SendData: empty, or a payload
NoPayload == << >>

Payload == <<"d">>

\* the runs explored, as <<-resolve value, host of the target URL, payload>>:
\* no override (without and with a payload), the override host, and another
\* host
Targets == { <<ResolveNone, <<"h">>, NoPayload>>,
            <<ResolveNone, <<"h">>, Payload>>,
            <<ResolveComma, <<"h">>, NoPayload>>,
            <<ResolveColon, <<"h">>, NoPayload>>,
            <<ResolveColon, <<"o">>, NoPayload>> }

UrlPort == <<"p">>

VARIABLES
    C,              \* Work.C
    CPS,            \* Work.CPS
    resolve,        \* Work.resolve
    urlHost,        \* host part of Work.URL
    SendData,       \* Work.SendData
    pcMain,         \* position of the main goroutine
    i,              \* loop variable of Start's launch loop
    pauses,         \* number of time.Sleep(1s) calls Start has completed
    total,          \* PrintReport's total
    allocated,      \* Start has made the three channels
    sockets,        \* Work.sockets: buffered channel content (worker ids)
    socketsClosed,  \* Work.sockets has been closed
    counters,       \* Work.counters: buffered channel content (worker ids)
    countersClosed, \* Work.counters has been closed
    stopCh,         \* Work.stopCh: number of buffered stop notifications
    wg,             \* the WaitGroup's counter
    ao,             \* Work.ao: [set, h, addrs, n]
    pc,             \* position of each worker goroutine
    sel,            \* <<value of as.n the worker read in aoverride.dial>>
    counterN,       \* counter.N of each worker's counter
    pcStop,         \* position of each goroutine that calls Stop
    stopI,          \* loop variable of each Stop's broadcast loop
    crashed,        \* "none", or how the process died
    \* history variables
    launchCount,    \* how many times each index was launched
    pausesBefore,   \* pauses completed when each index was launched
    written,        \* total length of the chunks written to each counter
    readCount,      \* how many times PrintReport received each counter
    stopSent,       \* stop notifications sent during the run
    stopTaken,      \* stop notifications each worker received
    dialOK,         \* how many times the worker's Dial returned a connection
    socketsSent,    \* how many handles the worker sent on w.sockets
    countersSent,   \* how many counters the worker sent on w.counters
    closeAttempts   \* close frames Stop tried to write on the worker's socket

vars == << C, CPS, resolve, urlHost, SendData, pcMain, i, pauses, total, allocated,
           sockets, socketsClosed, counters, countersClosed, stopCh, wg, ao,
           pc, sel, counterN, pcStop, stopI, crashed,
           launchCount, pausesBefore, written, readCount, stopSent,
           stopTaken, dialOK, socketsSent, countersSent, closeAttempts >>

cfgVars == << C, CPS, resolve, urlHost, SendData >>

mainVars == << pcMain, i, pauses, total >>

chanVars == << sockets, socketsClosed, counters, countersClosed, stopCh >>

stopVars == << pcStop, stopI >>

histVars == << launchCount, pausesBefore, written, readCount, stopSent,
               stopTaken >>

pubVars == << dialOK, socketsSent, countersSent, closeAttempts >>

\* ------------------------------------------------------- pure functions

\* index of the first element of s equal to sep, 0 if there is none
RECURSIVE IndexOf(_, _, _)
IndexOf(s, sep, k) ==
    IF k > Len(s) THEN 0
    ELSE IF s[k] = sep THEN k
    ELSE IndexOf(s, sep, k + 1)

\* strings.Split(s, sep) for a one-character separator
RECURSIVE Split(_, _)
Split(s, sep) ==
    LET k == IndexOf(s, sep, 1)
    IN  IF k = 0 THEN << s >>
        ELSE << SubSeq(s, 1, k - 1) >> \o Split(SubSeq(s, k + 1, Len(s)), sep)

\* main: if q == 0 { q = conc }
DefaultRate(q, conc) == IF q = 0 THEN conc ELSE q

\* Start: addrs := r[2:]
AddrsOf(r) == SubSeq(r, 3, Len(r))

\* Start: the aoverride built from w.resolve (w.ao stays nil when it is unset)
BuildOverride(spec) ==
    IF spec = << >>
    THEN [set |-> FALSE, h |-> << >>, addrs |-> << >>, n |-> 0]
    ELSE LET r == Split(spec, ":")
         IN  [set |-> TRUE, h |-> r[1], addrs |-> AddrsOf(r), n |-> 0]

\* mutant of WgAdd: the WaitGroup counts one worker too few
WgAdd_short(c) == c - 1

\* Start: wg.Add(w.C)
WgAdd(c) == c

\* Start: if i > 0 && i%w.CPS == 0 { ... time.Sleep(1 * time.Second) }
ShouldPause(idx, cps) == idx > 0 /\ idx % cps = 0

\* mutant of CounterWrite: counts writes, not bytes
CounterWrite_calls(n, len) == n + 1

\* counter.Write: c.N += len(p)
CounterWrite(n, len) == n + len

\* largest value of as.n (n int32)
MaxInt32 == 2147483647

\* mutant of AtomicAddInt32: the update is lost once the index has advanced
AtomicAddInt32_lost(n, delta) == IF n >= 1 THEN n ELSE n + delta

\* aoverride.dial: atomic.AddInt32(&as.n, 1), wrapping at 32 bits (delta > 0)
AtomicAddInt32(n, delta) ==
    IF n > MaxInt32 - delta
    THEN (n - (MaxInt32 - delta)) - 1 - MaxInt32 - 1
    ELSE n + delta

\* aoverride.dial: int(as.n)%len(as.addrs); Go's remainder takes the sign
\* of the dividend
SelectIndex(n, len) == IF n < 0 THEN 0 - ((0 - n) % len) ELSE n % len

\* aoverride.dial: as.addrs[int(as.n)%len(as.addrs)] + ":" + port
SelectAddr(addrs, n, port) ==
    addrs[SelectIndex(n, Len(addrs)) + 1] \o <<":">> \o port

\* mutant of ChanCap: the channels are made one slot too small
ChanCap_short(c) == c - 1

\* Start: make(chan ..., w.C), the capacity of the three channels
ChanCap(c) == c

\* mutant of RangeEnds: the range ends as soon as the channel is empty
RangeEnds_empty(queue, closed) == queue = << >>

\* PrintReport: for c := range w.counters ends when the channel is closed
\* and drained
RangeEnds(queue, closed) == queue = << >> /\ closed

\* mutant of StopAvailable: the last buffered notification is not received
StopAvailable_late(n) == n > 1

\* runWorker: select { case <-w.stopCh: ... default: } takes the first case
\* when a notification is buffered
StopAvailable(n) == n > 0

Alive == crashed = "none" /\ pcMain # "exited"

\* ------------------------------------------------------------------ Init
Init ==
    /\ C \in 1 .. MaxC
    /\ \E q \in 0 .. MaxC : CPS = DefaultRate(q, C)
    /\ \E tg \in Targets :
         resolve = tg[1] /\ urlHost = tg[2] /\ SendData = tg[3]
    /\ pcMain = "alloc"
    /\ i = 0
    /\ pauses = 0
    /\ total = 0
    /\ allocated = FALSE
    /\ sockets = << >>
    /\ socketsClosed = FALSE
    /\ counters = << >>
    /\ countersClosed = FALSE
    /\ stopCh = 0
    /\ wg = 0
    /\ ao = BuildOverride(<< >>)
    /\ pc = [w \in Slots |-> "idle"]
    /\ sel = [w \in Slots |-> NoSel]
    /\ counterN = [w \in Slots |-> 0]
    /\ pcStop = [t \in Triggers |-> "idle"]
    /\ stopI = [t \in Triggers |-> 0]
    /\ crashed = "none"
    /\ launchCount = [w \in Slots |-> 0]
    /\ pausesBefore = [w \in Slots |-> 0]
    /\ written = [w \in Slots |-> 0]
    /\ readCount = [w \in Slots |-> 0]
    /\ stopSent = 0
    /\ stopTaken = [w \in Slots |-> 0]
    /\ dialOK = [w \in Slots |-> 0]
    /\ socketsSent = [w \in Slots |-> 0]
    /\ countersSent = [w \in Slots |-> 0]
    /\ closeAttempts = [w \in Slots |-> 0]

\* ------------------------------------------------------------ Work.Start

\* make the three channels, build the dialer and the override, wg.Add(w.C)
StartAlloc ==
    /\ Alive
    /\ pcMain = "alloc"
    /\ allocated' = TRUE
    /\ ao' = BuildOverride(resolve)
    /\ wg' = WgAdd(C)
    /\ pcMain' = "launch"
    /\ UNCHANGED << cfgVars, i, pauses, total, chanVars, pc, sel,
                    counterN, stopVars, crashed, histVars,
                    pubVars >>

\* one iteration of the launch loop up to the sleep: go func(i){...}(i)
StartLaunch ==
    /\ Alive
    /\ pcMain = "launch"
    /\ i < C
    /\ pc' = [pc EXCEPT ![i] = "dial"]
    /\ launchCount' = [launchCount EXCEPT ![i] = @ + 1]
    /\ pausesBefore' = [pausesBefore EXCEPT ![i] = pauses]
    /\ IF ShouldPause(i, CPS)
       THEN /\ pcMain' = "sleep"
            /\ i' = i
       ELSE /\ i' = i + 1
            /\ pcMain' = IF i + 1 < C THEN "launch" ELSE "wait"
    /\ UNCHANGED << cfgVars, pauses, total, allocated, chanVars, wg, ao, sel,
                    counterN, stopVars, crashed, written, readCount,
                    stopSent, stopTaken,
                    pubVars >>

\* time.Sleep(1 * time.Second) returns, i++
StartSleep ==
    /\ Alive
    /\ pcMain = "sleep"
    /\ pauses' = pauses + 1
    /\ i' = i + 1
    /\ pcMain' = IF i + 1 < C THEN "launch" ELSE "wait"
    /\ UNCHANGED << cfgVars, total, allocated, chanVars, wg, ao, pc, sel, counterN, stopVars, crashed, histVars,
                    pubVars >>

\* wg.Wait() returns, Start returns and main calls PrintReport
StartWait ==
    /\ Alive
    /\ pcMain = "wait"
    /\ wg = 0
    /\ pcMain' = "report"
    /\ UNCHANGED << cfgVars, i, pauses, total, allocated, chanVars, wg, ao,
                    pc, sel, counterN, stopVars, crashed, histVars,
                    pubVars >>

\* ------------------------------------------------------ Work.PrintReport

\* for c := range w.counters { total += c.N }, one received counter
ReportRecv ==
    /\ Alive
    /\ pcMain = "report"
    /\ counters # << >>
    /\ LET w == Head(counters)
       IN  /\ total' = total + counterN[w]
           /\ readCount' = [readCount EXCEPT ![w] = @ + 1]
    /\ counters' = Tail(counters)
    /\ UNCHANGED << cfgVars, pcMain, i, pauses, allocated, sockets,
                    socketsClosed, countersClosed, stopCh, wg, ao, pc, sel, counterN, stopVars, crashed, launchCount,
                    pausesBefore, written, stopSent, stopTaken,
                    pubVars >>

\* the range ends on the closed, empty channel; the line is printed and main
\* returns, which ends the process
ReportPrint ==
    /\ Alive
    /\ pcMain = "report"
    /\ RangeEnds(counters, countersClosed)
    /\ pcMain' = "exited"
    /\ UNCHANGED << cfgVars, i, pauses, total, allocated, chanVars, wg, ao,
                    pc, sel, counterN, stopVars, crashed, histVars,
                    pubVars >>

\* -------------------------------------------------------- Work.runWorker

\* mutant of DialFails: the failed worker still sends a handle
DialFails_publishes(w) ==
    /\ pc' = [pc EXCEPT ![w] = "dial_failed"]
    /\ wg' = wg - 1
    /\ sockets' = Append(sockets, w)
    /\ socketsSent' = [socketsSent EXCEPT ![w] = @ + 1]
    /\ UNCHANGED << crashed, dialOK >>

\* runWorker returns after a failed dial; the goroutine calls wg.Done()
DialFails(w) ==
    /\ pc' = [pc EXCEPT ![w] = "dial_failed"]
    /\ wg' = wg - 1
    /\ UNCHANGED << sockets, crashed, dialOK, socketsSent >>

\* the dial returned a connection: w.sockets <- ws
\* (a send on a closed channel panics)
DialSucceeds(w) ==
    /\ dialOK' = [dialOK EXCEPT ![w] = @ + 1]
    /\ IF socketsClosed
       THEN /\ crashed' = "send_on_closed"
            /\ UNCHANGED << sockets, pc, wg, socketsSent >>
       ELSE /\ Len(sockets) < ChanCap(C)
            /\ sockets' = Append(sockets, w)
            /\ socketsSent' = [socketsSent EXCEPT ![w] = @ + 1]
            /\ pc' = [pc EXCEPT ![w] =
                         IF SendData # NoPayload THEN "send_data"
                                                 ELSE "pub_counter"]
            /\ UNCHANGED << crashed, wg >>

\* w.dila.Dial without an override: it fails, or yields a connection
DialPlain(w) ==
    /\ Alive
    /\ pc[w] = "dial"
    /\ ~ao.set
    /\ \E ok \in BOOLEAN : IF ok THEN DialSucceeds(w) ELSE DialFails(w)
    /\ UNCHANGED << cfgVars, mainVars, allocated, socketsClosed, counters,
                    countersClosed, stopCh, ao, sel, counterN, stopVars,
                    histVars, countersSent,
                    closeAttempts >>

\* aoverride.dial, host != as.h: net.Dial(network, address), then
\* c.RemoteAddr() on the result, which is nil when the dial failed; after a
\* successful dial the upgrade succeeds or fails
DialOther(w) ==
    /\ Alive
    /\ pc[w] = "dial"
    /\ ao.set
    /\ urlHost # ao.h
    /\ \E res \in {"connected", "bad_handshake", "dial_error"} :
         CASE res = "connected" -> DialSucceeds(w)
           [] res = "bad_handshake" -> DialFails(w)
           [] res = "dial_error" ->
                /\ crashed' = "nil_dereference"
                /\ UNCHANGED << sockets, pc, wg, dialOK, socketsSent >>
    /\ UNCHANGED << cfgVars, mainVars, allocated, socketsClosed, counters,
                    countersClosed, stopCh, ao, sel, counterN, stopVars,
                    histVars, countersSent,
                    closeAttempts >>

\* aoverride.dial, host == as.h:
\* a := as.addrs[int(as.n)%len(as.addrs)] + ":" + port  (a plain read of as.n)
DialSelect(w) ==
    /\ Alive
    /\ pc[w] = "dial"
    /\ ao.set
    /\ urlHost = ao.h
    /\ IF Len(ao.addrs) = 0
       THEN /\ crashed' = "divide_by_zero"
            /\ UNCHANGED << pc, sel >>
       ELSE IF SelectIndex(ao.n, Len(ao.addrs)) < 0
       THEN /\ crashed' = "index_out_of_range"
            /\ UNCHANGED << pc, sel >>
       ELSE /\ sel' = [sel EXCEPT ![w] = << ao.n >>]
            /\ pc' = [pc EXCEPT ![w] = "ao_add"]
            /\ UNCHANGED crashed
    /\ UNCHANGED << cfgVars, mainVars, allocated, chanVars, wg, ao, counterN,
                    stopVars, histVars,
                    pubVars >>

\* aoverride.dial: atomic.AddInt32(&as.n, 1)
DialAdd(w) ==
    /\ Alive
    /\ pc[w] = "ao_add"
    /\ ao' = [ao EXCEPT !.n = AtomicAddInt32(@, 1)]
    /\ pc' = [pc EXCEPT ![w] = "ao_dial"]
    /\ UNCHANGED << cfgVars, mainVars, allocated, chanVars, wg, sel, counterN,
                    stopVars, crashed, histVars,
                    pubVars >>

\* aoverride.dial: c, err := net.Dial(network, a); return c, err
\* then the upgrade; any failure makes w.dila.Dial return an error
DialPool(w) ==
    /\ Alive
    /\ pc[w] = "ao_dial"
    /\ \E ok \in BOOLEAN : IF ok THEN DialSucceeds(w) ELSE DialFails(w)
    /\ UNCHANGED << cfgVars, mainVars, allocated, socketsClosed, counters,
                    countersClosed, stopCh, ao, sel, counterN, stopVars,
                    histVars, countersSent,
                    closeAttempts >>

\* if w.SendData != "" { ww, err := ws.NextWriter(...); if err != nil { log };
\*                         io.WriteString(ww, w.SendData) }
\* ww is nil when NextWriter failed, and io.WriteString calls ww.Write
SendPayload(w) ==
    /\ Alive
    /\ pc[w] = "send_data"
    /\ \E res \in {"written", "write_error", "no_writer"} :
         IF res = "no_writer"
         THEN /\ crashed' = "nil_writer"
              /\ pc' = pc
         ELSE /\ pc' = [pc EXCEPT ![w] = "pub_counter"]
              /\ UNCHANGED crashed
    /\ UNCHANGED << cfgVars, mainVars, allocated, chanVars, wg, ao, sel,
                    counterN, stopVars, histVars, pubVars >>

\* c := &counter{}; w.counters <- c
PublishCounter(w) ==
    /\ Alive
    /\ pc[w] = "pub_counter"
    /\ IF countersClosed
       THEN /\ crashed' = "send_on_closed"
            /\ UNCHANGED << counters, pc, countersSent >>
       ELSE /\ Len(counters) < ChanCap(C)
            /\ counters' = Append(counters, w)
            /\ countersSent' = [countersSent EXCEPT ![w] = @ + 1]
            /\ pc' = [pc EXCEPT ![w] = "read"]
            /\ UNCHANGED crashed
    /\ UNCHANGED << cfgVars, mainVars, allocated, sockets, socketsClosed,
                    countersClosed, stopCh, wg, ao, sel, counterN, stopVars,
                    histVars, dialOK,
                    socketsSent, closeAttempts >>

\* ws.NextReader() returns an error or a close message: runWorker returns
\* and the goroutine calls wg.Done()
ReadEnd(w) ==
    /\ Alive
    /\ pc[w] = "read"
    /\ pc' = [pc EXCEPT ![w] = "closed"]
    /\ wg' = wg - 1
    /\ UNCHANGED << cfgVars, mainVars, allocated, chanVars, ao, sel, counterN,
                    stopVars, crashed, histVars,
                    pubVars >>

\* ws.NextReader() returns a data message, io.Copy(out, r) writes its bytes
\* to the counter, then select { case <-w.stopCh: return; default: }
ReadData(w) ==
    /\ Alive
    /\ pc[w] = "read"
    /\ counterN[w] < MaxBytes
    /\ \E len \in 1 .. MaxChunk :
         /\ counterN' = [counterN EXCEPT ![w] = CounterWrite(@, len)]
         /\ written' = [written EXCEPT ![w] = @ + len]
    /\ IF StopAvailable(stopCh)
       THEN /\ stopCh' = stopCh - 1
            /\ stopTaken' = [stopTaken EXCEPT ![w] = @ + 1]
            /\ pc' = [pc EXCEPT ![w] = "closed"]
            /\ wg' = wg - 1
       ELSE UNCHANGED << stopCh, stopTaken, pc, wg >>
    /\ UNCHANGED << cfgVars, mainVars, allocated, sockets, socketsClosed,
                    counters, countersClosed, ao, sel, stopVars, crashed,
                    launchCount, pausesBefore, readCount, stopSent,
                    pubVars >>

\* ------------------------------------------------------------- Work.Stop

\* main's goroutines: time.Sleep(dur) returns, or the interrupt arrives on c;
\* the goroutine calls w.Stop()
Trigger(t) ==
    /\ Alive
    /\ pcStop[t] = "idle"
    /\ pcStop' = [pcStop EXCEPT ![t] = "send"]
    /\ UNCHANGED << cfgVars, mainVars, allocated, chanVars, wg, ao, pc, sel, counterN, stopI, crashed, histVars,
                    pubVars >>

\* w.stopCh <- struct{}{} : on the nil channel (Start has not run yet) the
\* goroutine blocks for ever; on the full channel it waits
StopSend(t) ==
    /\ Alive
    /\ pcStop[t] = "send"
    /\ IF ~allocated
       THEN /\ pcStop' = [pcStop EXCEPT ![t] = "blocked_nil"]
            /\ UNCHANGED << stopCh, stopI, stopSent >>
       ELSE /\ stopCh < ChanCap(C)
            /\ stopCh' = stopCh + 1
            /\ stopSent' = stopSent + 1
            /\ stopI' = [stopI EXCEPT ![t] = @ + 1]
            /\ pcStop' = [pcStop EXCEPT ![t] =
                             IF stopI[t] + 1 < C THEN "send" ELSE "close_sockets"]
    /\ UNCHANGED << cfgVars, mainVars, allocated, sockets, socketsClosed,
                    counters, countersClosed, wg, ao, pc, sel,
                    counterN, crashed, launchCount, pausesBefore, written,
                    readCount, stopTaken,
                    pubVars >>

\* close(w.sockets)  (closing a closed channel panics)
StopCloseSockets(t) ==
    /\ Alive
    /\ pcStop[t] = "close_sockets"
    /\ IF socketsClosed
       THEN /\ crashed' = "close_of_closed"
            /\ UNCHANGED << socketsClosed, pcStop >>
       ELSE /\ socketsClosed' = TRUE
            /\ pcStop' = [pcStop EXCEPT ![t] = "close_counters"]
            /\ UNCHANGED crashed
    /\ UNCHANGED << cfgVars, mainVars, allocated, sockets, counters,
                    countersClosed, stopCh, wg, ao, pc, sel, counterN,
                    stopI, histVars,
                    pubVars >>

\* close(w.counters)
StopCloseCounters(t) ==
    /\ Alive
    /\ pcStop[t] = "close_counters"
    /\ IF countersClosed
       THEN /\ crashed' = "close_of_closed"
            /\ UNCHANGED << countersClosed, pcStop >>
       ELSE /\ countersClosed' = TRUE
            /\ pcStop' = [pcStop EXCEPT ![t] = "drain"]
            /\ UNCHANGED crashed
    /\ UNCHANGED << cfgVars, mainVars, allocated, sockets, socketsClosed,
                    counters, stopCh, wg, ao, pc, sel, counterN,
                    stopI, histVars,
                    pubVars >>

\* for s := range w.sockets { err := s.WriteMessage(close frame);
\*                            if err != nil { return } }
StopDrain(t) ==
    /\ Alive
    /\ pcStop[t] = "drain"
    /\ IF sockets = << >>
       THEN /\ pcStop' = [pcStop EXCEPT ![t] = "done"]
            /\ UNCHANGED << sockets, closeAttempts >>
       ELSE /\ sockets' = Tail(sockets)
            /\ closeAttempts' = [closeAttempts EXCEPT ![Head(sockets)] = @ + 1]
            /\ \E ok \in BOOLEAN :
                 pcStop' = [pcStop EXCEPT ![t] = IF ok THEN "drain" ELSE "done"]
    /\ UNCHANGED << cfgVars, mainVars, allocated, socketsClosed, counters,
                    countersClosed, stopCh, wg, ao, pc, sel, counterN,
                    stopI, crashed, histVars, dialOK,
                    socketsSent, countersSent >>

\* --------------------------------------------------------- specification
Next ==
    \/ StartAlloc
    \/ StartLaunch
    \/ StartSleep
    \/ StartWait
    \/ ReportRecv
    \/ ReportPrint
    \/ \E w \in Slots : DialPlain(w)
    \/ \E w \in Slots : DialOther(w)
    \/ \E w \in Slots : DialSelect(w)
    \/ \E w \in Slots : DialAdd(w)
    \/ \E w \in Slots : DialPool(w)
    \/ \E w \in Slots : SendPayload(w)
    \/ \E w \in Slots : PublishCounter(w)
    \/ \E w \in Slots : ReadEnd(w)
    \/ \E w \in Slots : ReadData(w)
    \/ \E t \in Triggers : Trigger(t)
    \/ \E t \in Triggers : StopSend(t)
    \/ \E t \in Triggers : StopCloseSockets(t)
    \/ \E t \in Triggers : StopCloseCounters(t)
    \/ \E t \in Triggers : StopDrain(t)

Spec == Init /\ [][Next]_vars

\* goroutine scheduling is fair, dials time out, and time.Sleep(dur) returns;
\* the interrupt and inbound messages may never come
FairSpec ==
    /\ Spec
    /\ WF_vars(StartAlloc \/ StartLaunch \/ StartSleep \/ StartWait)
    /\ WF_vars(ReportRecv \/ ReportPrint)
    /\ \A w \in Slots :
         WF_vars(DialPlain(w) \/ DialOther(w) \/ DialSelect(w) \/ DialAdd(w)
                 \/ DialPool(w) \/ SendPayload(w) \/ PublishCounter(w))
    /\ WF_vars(Trigger("timer"))
    /\ \A t \in Triggers :
         WF_vars(StopSend(t) \/ StopCloseSockets(t) \/ StopCloseCounters(t)
                 \/ StopDrain(t))

\* ------------------------------------------------------------ vocabulary
Workers == 0 .. (C - 1)

Terminated(w) == pc[w] \in {"dial_failed", "closed"}

StartReturned == pcMain \in {"report", "exited"}

StopInvoked == \E t \in Triggers : pcStop[t] # "idle"

\* workers that have sent their counter on w.counters
Published == {w \in Slots : pc[w] \in {"read", "closed"}}

\* matching-host calls of aoverride.dial that have done their atomic add
IncrementsDone == Cardinality({w \in Slots : sel[w] # NoSel /\ pc[w] # "ao_add"})

\* matching-host calls of aoverride.dial that have selected an address
Selected == {w \in Slots : sel[w] # NoSel}

RECURSIVE SumOver(_, _)
SumOver(f, S) ==
    IF S = {} THEN 0
    ELSE LET x == CHOOSE y \in S : TRUE IN f[x] + SumOver(f, S \ {x})

\* ----------------------------------------------------------------- claims

\* C1: Start launches exactly the workers 0..C-1, each once, and when it has
\* returned every one of them has terminated or the stop path has been
\* invoked.
C1_StartLaunchesAllAndWaits ==
    /\ \A w \in Slots : launchCount[w] <= (IF w \in Workers THEN 1 ELSE 0)
    /\ StartReturned =>
         /\ \A w \in Workers : launchCount[w] = 1
         /\ (\A w \in Workers : Terminated(w)) \/ StopInvoked

C1_Witness ==
    /\ StartReturned
    /\ C >= 2
    /\ ~StopInvoked
    /\ \A w \in Workers : Terminated(w)

\* C2: the launch of the Nth worker (index N-1) is preceded by exactly
\* floor((N-1)/rate) one-second pauses.
C2_PausesBeforeLaunch ==
    \A w \in Slots : launchCount[w] >= 1 => pausesBefore[w] = w \div CPS

\* C3: the M matching-host calls of aoverride.dial use the selection indices
\* 0..M-1, each exactly once, so that no two calls pick the same index.
C3_RoundRobinDistinct ==
    /\ \A w1, w2 \in Selected : w1 # w2 => sel[w1][1] # sel[w2][1]
    /\ {sel[w][1] : w \in Selected} = 0 .. (Cardinality(Selected) - 1)

\* C4: the selection index equals the number of matching-host calls that
\* have done their increment; calls for another host leave it at 0.
C4_SelectionIndexCounts ==
    /\ ao.n = IncrementsDone
    /\ (ao.set /\ urlHost # ao.h) => ao.n = 0

C4_Witness ==
    /\ ao.n = 2
    /\ \E w \in Slots : pc[w] = "ao_dial"

\* C5: for a -resolve value of the form host:port:a1,...,ak the override's
\* host is host and its pool is the list of the k addresses a1, ..., ak.
C5_PoolFromResolve ==
    (ao.set /\ Len(Split(resolve, ":")) = 3) =>
        /\ ao.h = Split(resolve, ":")[1]
        /\ ao.addrs = Split(Split(resolve, ":")[3], ",")

\* C6: whenever the live-connection queue or the counter queue is closed,
\* exactly C stop notifications have been sent during the run.
C6_StopSentIsC ==
    (socketsClosed \/ countersClosed) => stopSent = C

\* C7: no execution of the stop path closes a queue that is already closed.
C7_ClosedOnce == crashed # "close_of_closed"

\* C8: once the counter queue is closed and PrintReport has been called,
\* PrintReport returns.
C8_ReportTerminates ==
    (pcMain = "report" /\ countersClosed) ~> (pcMain = "exited")

C10_AllDialsFailCompletes ==
    (/\ \A w \in Workers : pc[w] = "dial_failed"
     /\ StopInvoked
     /\ \A t \in Triggers : pcStop[t] # "blocked_nil")
        ~> (pcMain = "exited" /\ total = 0 /\ crashed = "none")

\* some call of Stop has finished its loop of C sends on w.stopCh
BroadcastDone == \E t \in Triggers : stopI[t] = C

\* workers whose handle was sent on w.sockets
HandlePublished == {w \in Slots : socketsSent[w] >= 1}

\* C11: once the duration has elapsed the summary line is eventually
\* printed, whatever the workers meet.  Stated for the runs that the defects
\* of C7, C12 and C20 leave alone: the timer fires after Start has made the
\* channels, and a received interrupt or a dead process also ends the wait.
C11_ReportAlwaysPrints ==
    (allocated /\ pcStop["timer"] \notin {"idle", "blocked_nil"})
        ~> (pcMain = "exited" \/ pcStop["interrupt"] # "idle"
                              \/ crashed # "none")

\* C12: no failure that a worker meets (a dial error on either override
\* path, a failed upgrade, a payload write error, a read error, a remote
\* close) ends the process.
C12_WorkerFailureIsolated == crashed \notin {"nil_dereference", "nil_writer"}

\* C13: when Stop has returned, every connection that was in the
\* live-connection queue has had exactly one attempt to send it a close
\* frame, also the connections queued behind one whose send failed.
C13_EveryHandleGetsCloseFrame ==
    /\ \A w \in Slots : closeAttempts[w] <= 1
    /\ \A t \in Triggers :
         pcStop[t] = "done" => \A w \in HandlePublished : closeAttempts[w] = 1

C15_ConsumedOnlyAfterClose ==
    /\ \A w \in Slots : readCount[w] >= 1 => countersClosed
    /\ countersClosed => BroadcastDone

\* C15 as amended: PrintReport returns only when the counter queue is
\* closed, and the queue is closed only after a Stop has sent all its C
\* notifications; a counter can be received before the close, but only
\* after Start has returned.
C15_ReportEndsAfterClose ==
    /\ pcMain = "exited" => countersClosed
    /\ countersClosed => BroadcastDone
    /\ \A w \in Slots : readCount[w] >= 1 => StartReturned

C15_Witness ==
    /\ pcMain = "exited"
    /\ stopSent = C
    /\ \A w \in Workers : readCount[w] = 1

\* C16: each worker sends at most one handle and one counter, each queue
\* holds at most C entries, and a worker about to publish finds room in the
\* queue, so that its send does not wait for a consumer.
C16_PublishNeverBlocks ==
    /\ Len(sockets) <= C
    /\ Len(counters) <= C
    /\ \A w \in Slots : socketsSent[w] <= 1 /\ countersSent[w] <= 1
    /\ \A w \in Slots : pc[w] \in {"dial", "ao_dial"} => Len(sockets) < ChanCap(C)
    /\ \A w \in Slots : pc[w] = "pub_counter" => Len(counters) < ChanCap(C)

C16_Witness ==
    /\ C >= 2
    /\ Len(sockets) = C
    /\ Len(counters) = C
    /\ pcMain = "wait"
    /\ ~StopInvoked

\* C17: a send of Stop's broadcast on the (allocated) stop-signal queue
\* always finds room, whichever triggers invoke Stop.
C17_BroadcastNeverBlocks ==
    \A t \in Triggers :
        (allocated /\ pcStop[t] = "send") => stopCh < ChanCap(C)

\* C18: a worker receives at most one stop notification; once a Stop has
\* sent all C notifications, a worker that is still reading has one
\* available, and a worker that then finishes a data message receives it
\* and leaves its loop.
C18_CooperativeStop ==
    /\ [](\A w \in Slots : stopTaken[w] <= 1)
    /\ [](\A w \in Slots : (BroadcastDone /\ pc[w] = "read") => stopCh > 0)
    /\ [][\A w \in Slots :
            (BroadcastDone /\ written'[w] # written[w]) =>
                (pc'[w] = "closed" /\ stopTaken'[w] = stopTaken[w] + 1)]_vars

C18_Witness ==
    /\ C >= 2
    /\ stopSent = C
    /\ \A w \in Workers : stopTaken[w] = 1 /\ pc[w] = "closed"

\* C19: a worker whose dial failed has published nothing, a counter is
\* published only after the worker's handle, and so
\* counters published <= handles published <= successful dials <= C.
C19_PublishOrder ==
    /\ \A w \in Slots :
         /\ countersSent[w] <= socketsSent[w]
         /\ socketsSent[w] <= dialOK[w]
         /\ dialOK[w] <= 1
    /\ \A w \in Slots :
         pc[w] = "dial_failed" => socketsSent[w] = 0 /\ countersSent[w] = 0
    /\ SumOver(countersSent, Slots) <= SumOver(socketsSent, Slots)
    /\ SumOver(socketsSent, Slots) <= SumOver(dialOK, Slots)
    /\ SumOver(dialOK, Slots) <= C

C19_Witness ==
    \E w1, w2 \in Slots :
        /\ pc[w1] = "dial_failed"
        /\ countersSent[w2] = 1
        /\ socketsSent[w2] = 1

\* C20: no worker sends a connection handle or a counter on a queue that
\* the stop path has closed.
C20_NoSendOnClosed == crashed # "send_on_closed"

====
